---- MODULE Spec2Model ----
(***************************************************************************)
(* Resume Analyzer API (src/app.py): the /analyze-resume handler with its  *)
(* temporary file, and the text-analysis functions it calls.  Texts are    *)
(* TLA+ strings; the Python string operations the code uses (lower, in,    *)
(* endswith, strip, split, title, re.search) are computed character by     *)
(* character.                                                              *)
(***************************************************************************)
EXTENDS Integers, Sequences, FiniteSets, TLC

None == "None"

(***************************************************************************)
(* Python str operations                                                   *)
(***************************************************************************)
LowerChars == "abcdefghijklmnopqrstuvwxyz"
UpperChars == "ABCDEFGHIJKLMNOPQRSTUVWXYZ"
DigitChars == "0123456789"

CharsOf(s) == {SubSeq(s, i, i) : i \in 1..Len(s)}

LowerSet == CharsOf(LowerChars)
UpperSet == CharsOf(UpperChars)
DigitSet == CharsOf(DigitChars)
AlphaSet == LowerSet \cup UpperSet
Whitespace == {" ", "\t", "\n", "\r", "\f"}

CharAt(s, i) == SubSeq(s, i, i)

IndexIn(alphabet, c) == CHOOSE i \in 1..Len(alphabet) : CharAt(alphabet, i) = c

lower_char(c) == IF c \in UpperSet THEN CharAt(LowerChars, IndexIn(UpperChars, c)) ELSE c

upper_char(c) == IF c \in LowerSet THEN CharAt(UpperChars, IndexIn(LowerChars, c)) ELSE c

\* s[lo..hi] lowered; the string is built by halves
RECURSIVE lower_range(_, _, _)
lower_range(s, lo, hi) ==
    IF lo > hi THEN ""
    ELSE IF lo = hi THEN lower_char(CharAt(s, lo))
    ELSE LET mid == (lo + hi) \div 2
         IN lower_range(s, lo, mid) \o lower_range(s, mid + 1, hi)

str_lower(s) == lower_range(s, 1, Len(s))

\* Python's `k in t` for strings
contains(t, k) == \E i \in 1..(Len(t) - Len(k) + 1) : SubSeq(t, i, i + Len(k) - 1) = k

contains_any(t, keywords) == \E k \in keywords : contains(t, k)

endswith(s, suffix) ==
    /\ Len(s) >= Len(suffix)
    /\ SubSeq(s, Len(s) - Len(suffix) + 1, Len(s)) = suffix

RECURSIVE lstrip(_)
lstrip(s) == IF s # "" /\ Head(s) \in Whitespace THEN lstrip(Tail(s)) ELSE s

RECURSIVE rstrip(_)
rstrip(s) ==
    IF s # "" /\ CharAt(s, Len(s)) \in Whitespace THEN rstrip(SubSeq(s, 1, Len(s) - 1)) ELSE s

strip(s) == rstrip(lstrip(s))

\* text.split('\n'): always at least one piece
RECURSIVE split_lines(_)
split_lines(s) ==
    IF ~contains(s, "\n")
    THEN <<s>>
    ELSE LET i == CHOOSE j \in 1..Len(s) :
                    /\ CharAt(s, j) = "\n"
                    /\ \A k \in 1..(j - 1) : CharAt(s, k) # "\n"
         IN <<SubSeq(s, 1, i - 1)>> \o split_lines(SubSeq(s, i + 1, Len(s)))

\* str.title(): a letter that follows a letter is lowered, any other letter is raised
title_at(s, i) ==
    LET c == CharAt(s, i)
    IN IF c \notin AlphaSet THEN c
       ELSE IF i > 1 /\ CharAt(s, i - 1) \in AlphaSet THEN lower_char(c)
       ELSE upper_char(c)

RECURSIVE title_range(_, _, _)
title_range(s, lo, hi) ==
    IF lo > hi THEN ""
    ELSE IF lo = hi THEN title_at(s, lo)
    ELSE LET mid == (lo + hi) \div 2
         IN title_range(s, lo, mid) \o title_range(s, mid + 1, hi)

title(s) == title_range(s, 1, Len(s))

(***************************************************************************)
(* The e-mail pattern of extract_personal_info and analyze_resume_sections *)
(*   \b[A-Za-z0-9._%+-]+@[A-Za-z0-9.-]+\.[A-Z|a-z]{2,}\b                   *)
(***************************************************************************)
WordSet == AlphaSet \cup DigitSet \cup {"_"}
EmailLocalSet == AlphaSet \cup DigitSet \cup {".", "_", "%", "+", "-"}
EmailDomainSet == AlphaSet \cup DigitSet \cup {".", "-"}
EmailTldSet == AlphaSet \cup {"|"}

is_word_at(t, i) == i >= 1 /\ i <= Len(t) /\ CharAt(t, i) \in WordSet

\* \b between positions i - 1 and i
word_boundary(t, i) == is_word_at(t, i - 1) # is_word_at(t, i)

all_in(t, from, to, set) == \A i \in from..to : CharAt(t, i) \in set

\* re.search(email pattern, text) finds a match: some split of some substring fits
email_search(t) ==
    \E at \in 1..Len(t) :
        /\ CharAt(t, at) = "@"
        /\ \E s \in 1..(at - 1) :
              /\ all_in(t, s, at - 1, EmailLocalSet)
              /\ word_boundary(t, s)
        /\ \E dot \in (at + 2)..Len(t) :
              /\ CharAt(t, dot) = "."
              /\ all_in(t, at + 1, dot - 1, EmailDomainSet)
              /\ \E e \in (dot + 2)..Len(t) :
                    /\ all_in(t, dot + 1, e, EmailTldSet)
                    /\ word_boundary(t, e + 1)

(***************************************************************************)
(* extract_skills                                                          *)
(***************************************************************************)
skill_keywords ==
    << "python", "java", "javascript", "c++", "c#", "php", "ruby", "go", "rust",
       "html", "css", "react", "angular", "vue", "django", "flask", "node", "express",
       "sql", "mysql", "postgresql", "mongodb", "redis",
       "aws", "azure", "gcp", "docker", "kubernetes", "jenkins",
       "machine learning", "data analysis", "artificial intelligence", "ai",
       "tensorflow", "pytorch", "pandas", "numpy", "scikit-learn",
       "git", "linux", "windows", "macos" >>

\* the keywords the loop finds, in vocabulary order
skills_in(text_lower) == SelectSeq(skill_keywords, LAMBDA skill : contains(text_lower, skill))

titled(hits) == [i \in 1..Len(hits) |-> title(hits[i])]

\* the list built by the loop
found_skills(text) == titled(skills_in(str_lower(text)))

Range(seq) == {seq[i] : i \in 1..Len(seq)}

\* list(set(xs)): every label once, in an order the set's hashing decides
list_of_set(S) ==
    {l \in [1..Cardinality(S) -> S] : \A i, j \in 1..Cardinality(S) : l[i] = l[j] => i = j}

\* the lists extract_skills(text) may return
extract_skills(text) == list_of_set(Range(found_skills(text)))

(***************************************************************************)
(* analyze_resume_sections                                                 *)
(***************************************************************************)
SectionNames == {"contact_info", "summary", "education", "experience", "skills", "projects"}

sections_in(text, text_lower) ==
    [contact_info |-> email_search(text),
     summary      |-> contains_any(text_lower, {"summary", "objective", "profile"}),
     education    |-> contains_any(text_lower, {"education", "academic", "university", "college"}),
     experience   |-> contains_any(text_lower, {"experience", "work", "employment", "professional"}),
     skills       |-> contains_any(text_lower, {"skills", "technical", "technologies"}),
     projects     |-> contains_any(text_lower, {"projects", "personal projects", "portfolio"})]

sections_of(text) == sections_in(text, str_lower(text))

SectionWeight == 15
ScoreCap == 100
ExcellentFrom == 80
GoodFrom == 60

\* the condition inverted: sum(15 for ... if not section)
raw_score_inverted(sections) ==
    SectionWeight * Cardinality({k \in DOMAIN sections : ~sections[k]})

\* sum(15 for section in sections.values() if section)
raw_score(sections) == SectionWeight * Cardinality({k \in DOMAIN sections : sections[k]})

Min(a, b) == IF a <= b THEN a ELSE b

returned_score(score) == Min(score, ScoreCap)

\* > for >=
grade_of_strict(score) ==
    IF score > ExcellentFrom THEN "Excellent"
    ELSE IF score > GoodFrom THEN "Good"
    ELSE "Needs Improvement"

grade_of(score) ==
    IF score >= ExcellentFrom THEN "Excellent"
    ELSE IF score >= GoodFrom THEN "Good"
    ELSE "Needs Improvement"

\* the returned dict (the feedback lines restate sections_found and are left out)
section_report(sections) ==
    [score          |-> returned_score(raw_score(sections)),
     sections_found |-> sections,
     grade          |-> grade_of(raw_score(sections))]

analyze_resume_sections(text) == section_report(sections_of(text))

(***************************************************************************)
(* extract_education                                                       *)
(***************************************************************************)
education_keywords == {"bachelor", "master", "phd", "degree", "university", "college"}

\* the Master test placed first
degree_of_master_first(line_lower) ==
    IF contains_any(line_lower, {"master", "m.s.", "m.a."}) THEN "Master"
    ELSE IF contains_any(line_lower, {"bachelor", "b.s.", "b.a."}) THEN "Bachelor"
    ELSE IF contains_any(line_lower, {"phd", "doctorate"}) THEN "PhD"
    ELSE None

degree_of(line_lower) ==
    IF contains_any(line_lower, {"bachelor", "b.s.", "b.a."}) THEN "Bachelor"
    ELSE IF contains_any(line_lower, {"master", "m.s.", "m.a."}) THEN "Master"
    ELSE IF contains_any(line_lower, {"phd", "doctorate"}) THEN "PhD"
    ELSE None

\* re.search(r'(19|20)\d{2}', line): positions where a match starts
year_starts(line) ==
    {i \in 1..(Len(line) - 3) :
        /\ SubSeq(line, i, i + 1) \in {"19", "20"}
        /\ CharAt(line, i + 2) \in DigitSet
        /\ CharAt(line, i + 3) \in DigitSet}

first_of(S) == CHOOSE i \in S : \A j \in S : i <= j

\* the dict built for one qualifying line: degree and year are keys only when found
entry_of(line, degree, years) ==
    LET base == [institution |-> strip(line)]
        deg  == IF degree # None THEN [degree |-> degree] @@ base ELSE base
    IN IF years # {}
       THEN [year |-> SubSeq(line, first_of(years), first_of(years) + 3)] @@ deg
       ELSE deg

education_entry(line) == entry_of(line, degree_of(str_lower(line)), year_starts(line))

line_qualifies(line) == contains_any(str_lower(line), education_keywords)

RECURSIVE education_loop(_, _, _)
education_loop(lines, i, education) ==
    IF i > Len(lines)
    THEN education
    ELSE education_loop(lines, i + 1,
                        IF line_qualifies(lines[i])
                        THEN Append(education, education_entry(lines[i]))
                        ELSE education)

extract_education(text) == education_loop(split_lines(text), 1, <<>>)

(***************************************************************************)
(* Experience level and the skills part of the report (analyze_resume)     *)
(***************************************************************************)
FresherBelow == 1000
IntermediateBelow == 3000

\* <= for <
experience_level_of_inclusive(n) ==
    IF n <= FresherBelow THEN "Fresher"
    ELSE IF n <= IntermediateBelow THEN "Intermediate"
    ELSE "Experienced"

experience_level_of(n) ==
    IF n < FresherBelow THEN "Fresher"
    ELSE IF n < IntermediateBelow THEN "Intermediate"
    ELSE "Experienced"

\* [s.lower() for s in skills if ...]: the lowered label is kept
category_lowered(labels, kws) ==
    LET kept == SelectSeq(labels, LAMBDA s : contains_any(str_lower(s), kws))
    IN [i \in 1..Len(kept) |-> str_lower(kept[i])]

\* [s for s in skills if any(kw in s.lower() for kw in kws)]
category(labels, kws) == SelectSeq(labels, LAMBDA s : contains_any(str_lower(s), kws))

skills_analysis_of(labels) ==
    [detected_skills  |-> labels,
     total_skills     |-> Len(labels),
     skill_categories |->
        [programming |-> category(labels, {"python", "java", "javascript", "c++", "c#"}),
         web         |-> category(labels, {"html", "css", "react", "angular", "vue"}),
         data        |-> category(labels, {"sql", "database", "data", "analysis"}),
         tools       |-> category(labels, {"git", "docker", "aws", "linux"})]]

(***************************************************************************)
(* State.  The first group is the handler's: one entry per request.  The   *)
(* second group holds one call of an analysis function: its input text and *)
(* what it returned.                                                       *)
(***************************************************************************)
VARIABLES
    PDFMINER_AVAILABLE,  \* module flag set at import
    pc,                  \* where each request's handler is
    file,                \* the upload: filename and size
    temp_path,           \* the handler's local temp_path
    disk,                \* temporary files on disk: name -> creator, and whose content it holds
    resume_text,         \* the handler's local resume_text
    invoked,             \* extractors each request has called
    response,            \* what the handler returned or raised
    fault,               \* the step that failed in the request, if one did
    created,             \* the name NamedTemporaryFile gave the request
    read_from,           \* the requests whose content extract_text read for the request
    unlinked,            \* the requests whose file the request's cleanup removed
    text,                \* input of an analysis function
    text_length,
    skills,
    skills_analysis,
    quality_analysis,
    education,
    experience_level,
    step

hvars == <<PDFMINER_AVAILABLE, pc, file, temp_path, disk, resume_text, invoked,
           response, fault, created, read_from, unlinked>>
fvars == <<text, text_length, skills, skills_analysis, quality_analysis, education,
           experience_level, step>>
vars == <<hvars, fvars>>

\* no request is being handled
NoRequests ==
    /\ PDFMINER_AVAILABLE = TRUE
    /\ pc = <<>> /\ file = <<>> /\ temp_path = <<>> /\ disk = <<>>
    /\ resume_text = <<>> /\ invoked = <<>> /\ response = <<>> /\ fault = <<>>
    /\ created = <<>> /\ read_from = <<>> /\ unlinked = <<>>

\* an analysis function is about to be called on input t (a text, or a length)
CallWith(t, n) ==
    /\ text = t /\ text_length = n
    /\ skills = None /\ skills_analysis = None /\ quality_analysis = None
    /\ education = None /\ experience_level = None
    /\ step = "call"

(***************************************************************************)
(* Input texts                                                             *)
(***************************************************************************)
RECURSIVE join(_, _)
join(pieces, sep) ==
    IF pieces = <<>> THEN ""
    ELSE IF Len(pieces) = 1 THEN pieces[1]
    ELSE pieces[1] \o sep \o join(Tail(pieces), sep)

\* every sequence of at most n entries of pool
seqs_upto(pool, n) == UNION {[1..k -> Range(pool)] : k \in 0..n}

MaxSkillWords == 2
SkillWords ==
    <<"Python", "PYTHON developer", "JavaScript", "MongoDB", "data analysis", "Git",
      "C++", "cooking">>
SkillTexts == {join(ws, ", ") : ws \in seqs_upto(SkillWords, MaxSkillWords)}

MaxEduLines == 3
EduLines ==
    <<"Bachelor of Science, MIT, 2015", "Random text", "Master of Arts, 2018",
      "M.S. and B.A. degree", "  State University 1999 ", "PhD, Master's and BACHELOR",
      "Doctorate, Tech College 2021", "B.S. Computer Science 2016">>
EduTexts == {join(ls, "\n") : ls \in seqs_upto(EduLines, MaxEduLines)}

\* per section: a text with a keyword of it, and another
SectionFragments ==
    << <<"jane.doe@mail.example.org", "Contact: J_Doe%x@cs.example.co.uk.">>,
       <<"Summary", "career OBJECTIVE">>,
       <<"Education", "Tech College">>,
       <<"Work Experience", "employment">>,
       <<"Technical Skills", "Technologies">>,
       <<"Portfolio", "Personal Projects">> >>

fragments_of(choice) ==
    LET picked == SelectSeq([i \in 1..Len(SectionFragments) |-> i], LAMBDA i : choice[i] > 0)
    IN [k \in 1..Len(picked) |-> SectionFragments[picked[k]][choice[picked[k]]]]

SectionTexts ==
    {join(fragments_of(choice), "\n") : choice \in [1..Len(SectionFragments) -> 0..2]}

MaxTextLength == 3100

(***************************************************************************)
(* One call of each analysis function                                      *)
(***************************************************************************)
InitSkills == NoRequests /\ \E t \in SkillTexts : CallWith(t, None)

\* analyze_resume: skills = extract_skills(resume_text), then skills_analysis
RunSkills ==
    /\ step = "call"
    /\ skills' \in extract_skills(text)
    /\ skills_analysis' = skills_analysis_of(skills')
    /\ step' = "returned"
    /\ UNCHANGED <<hvars, text, text_length, quality_analysis, education, experience_level>>

SpecSkills == InitSkills /\ [][RunSkills]_vars

InitSections == NoRequests /\ \E t \in SectionTexts : CallWith(t, None)

RunSections ==
    /\ step = "call"
    /\ quality_analysis' = analyze_resume_sections(text)
    /\ step' = "returned"
    /\ UNCHANGED <<hvars, text, text_length, skills, skills_analysis, education, experience_level>>

SpecSections == InitSections /\ [][RunSections]_vars

InitEducation == NoRequests /\ \E t \in EduTexts : CallWith(t, None)

RunEducation ==
    /\ step = "call"
    /\ education' = extract_education(text)
    /\ step' = "returned"
    /\ UNCHANGED <<hvars, text, text_length, skills, skills_analysis, quality_analysis,
                   experience_level>>

SpecEducation == InitEducation /\ [][RunEducation]_vars

\* only len(resume_text) decides the level: the text itself is left out
InitLevel == NoRequests /\ \E n \in 0..MaxTextLength : CallWith(None, n)

RunLevel ==
    /\ step = "call"
    /\ experience_level' = experience_level_of(text_length)
    /\ step' = "returned"
    /\ UNCHANGED <<hvars, text, text_length, skills, skills_analysis, quality_analysis,
                   education>>

SpecLevel == InitLevel /\ [][RunLevel]_vars

(***************************************************************************)
(* analyze_resume: the /analyze-resume handler.  Requests are handled      *)
(* concurrently (coroutines of one loop, or several workers), so the        *)
(* handler is cut where it touches the temporary directory or awaits.      *)
(* extract_personal_info's result is not part of the state: only whether   *)
(* it was called and whether it raised.                                    *)
(***************************************************************************)
NumRequests == 2
Requests == 1..NumRequests

\* names NamedTemporaryFile can give; a request creates at most one file
TempNames == {"tmp" \o CharAt(DigitChars, i + 1) \o ".pdf" : i \in Requests}

\* a limit of 50 MiB instead of 5 MiB
max_size_50 == 50 * 1024 * 1024

max_size == 5 * 1024 * 1024

Filenames == {"CV.PDF", "cv.txt"}
Sizes == {0, 2048, 5 * 1024 * 1024 + 1}

\* what the text-extraction library can return for an upload
HandlerTexts ==
    {"", " \n\t ", "A. Lee\nal@x.io\nPython\nCollege 2015"}

Extractors ==
    <<"extract_personal_info", "extract_skills", "analyze_resume_sections", "extract_education">>

HTTPException(status_code, detail) == [status_code |-> status_code, detail |-> detail]

Init ==
    /\ PDFMINER_AVAILABLE \in BOOLEAN
    /\ pc = [r \in Requests |-> "idle"]
    /\ file = [r \in Requests |-> None]
    /\ temp_path = [r \in Requests |-> None]
    /\ disk = <<>>
    /\ resume_text = [r \in Requests |-> None]
    /\ invoked = [r \in Requests |-> {}]
    /\ response = [r \in Requests |-> None]
    /\ fault = [r \in Requests |-> None]
    /\ created = [r \in Requests |-> None]
    /\ read_from = [r \in Requests |-> {}]
    /\ unlinked = [r \in Requests |-> {}]
    /\ text = None /\ text_length = None
    /\ skills = None /\ skills_analysis = None /\ quality_analysis = None
    /\ education = None /\ experience_level = None
    /\ step = "idle"

\* the handler leaves the try block with an exception.  While temp_path is None
\* the finally clause does nothing, and the handler is done in the same step.
Raise(r, exc, why) ==
    /\ response' = [response EXCEPT ![r] = exc]
    /\ fault' = [fault EXCEPT ![r] = why]
    /\ pc' = [pc EXCEPT ![r] = IF temp_path[r] = None THEN "done" ELSE "finally"]

\* except Exception as e: raise HTTPException(500, "Analysis failed: ...")
Failed(r, why) == Raise(r, HTTPException(500, "Analysis failed"), why)

is_pdf_name(filename) == endswith(str_lower(filename), ".pdf")

\* the request arrives and its file is validated
Validate(r) ==
    /\ pc[r] = "idle"
    /\ \E filename \in Filenames, file_size \in Sizes :
          /\ file' = [file EXCEPT ![r] = [filename |-> filename, file_size |-> file_size]]
          /\ IF ~is_pdf_name(filename)
             THEN Raise(r, HTTPException(400, "Only PDF files are allowed"), "validation")
             ELSE IF file_size > max_size
             THEN Raise(r, HTTPException(400, "File too large. Maximum size is 5MB"), "validation")
             ELSE IF file_size = 0
             THEN Raise(r, HTTPException(400, "File is empty"), "validation")
             ELSE /\ pc' = [pc EXCEPT ![r] = "create"]
                  /\ UNCHANGED <<response, fault>>
    /\ UNCHANGED <<PDFMINER_AVAILABLE, temp_path, disk, resume_text, invoked, created,
                   read_from, unlinked, fvars>>

\* one fixed path for every upload
fixed_name(d) == {"tmp1.pdf"}

\* the names tempfile may pick: it opens with O_EXCL, so never one that exists
free_names(d) == TempNames \ DOMAIN d

\* with tempfile.NamedTemporaryFile(delete=False, suffix='.pdf') as temp_file
CreateTemp(r) ==
    /\ pc[r] = "create"
    /\ \E n \in free_names(disk) :
          /\ disk' = (n :> [creator |-> r, writers |-> {}]) @@ disk
          /\ created' = [created EXCEPT ![r] = n]
    /\ pc' = [pc EXCEPT ![r] = "write"]
    /\ UNCHANGED <<PDFMINER_AVAILABLE, file, temp_path, resume_text, invoked, response,
                   fault, read_from, unlinked, fvars>>

\* the file named n now holds what request r wrote (it was created empty)
written(d, n, r) == IF n \in DOMAIN d THEN [d EXCEPT ![n].writers = {r}] ELSE d

\* content = await file.read(); temp_file.write(content); temp_path = temp_file.name
WriteTemp(r) ==
    /\ pc[r] = "write"
    /\ \/ /\ disk' = written(disk, created[r], r)
          /\ temp_path' = [temp_path EXCEPT ![r] = created[r]]
          /\ pc' = [pc EXCEPT ![r] = "extract"]
          /\ UNCHANGED <<response, fault>>
       \/ /\ Failed(r, "file.read")
          /\ UNCHANGED <<disk, temp_path>>
       \/ /\ Failed(r, "temp_file.write")
          /\ disk' = written(disk, created[r], r)
          /\ UNCHANGED temp_path
    /\ UNCHANGED <<PDFMINER_AVAILABLE, file, resume_text, invoked, created, read_from,
                   unlinked, fvars>>

\* not resume_text: the strip() is lost
no_text_unstripped(t) == t = ""

\* not resume_text.strip()
no_text(t) == strip(t) = ""

\* the PDFMINER_AVAILABLE check, extract_text(temp_path) and the empty-text check
ExtractText(r) ==
    /\ pc[r] = "extract"
    /\ IF ~PDFMINER_AVAILABLE
       THEN /\ Raise(r, HTTPException(500, "PDF processing not available"), "unavailable")
            /\ UNCHANGED <<resume_text, read_from>>
       ELSE IF temp_path[r] \notin DOMAIN disk
       THEN /\ Failed(r, "extract_text")
            /\ UNCHANGED <<resume_text, read_from>>
       ELSE /\ read_from' = [read_from EXCEPT ![r] = disk[temp_path[r]].writers]
            /\ \/ /\ Failed(r, "extract_text")
                  /\ UNCHANGED resume_text
               \/ \E t \in HandlerTexts :
                     /\ resume_text' = [resume_text EXCEPT ![r] = t]
                     /\ IF no_text(t)
                        THEN Raise(r, HTTPException(400, "No text could be extracted from PDF"),
                                   "no_text")
                        ELSE /\ pc' = [pc EXCEPT ![r] = "analyze"]
                             /\ UNCHANGED <<response, fault>>
    /\ UNCHANGED <<PDFMINER_AVAILABLE, file, temp_path, disk, invoked, created, unlinked,
                   fvars>>

analysis_result(f, t, sk) ==
    [skills_analysis  |-> skills_analysis_of(sk),
     education        |-> extract_education(t),
     resume_quality   |-> analyze_resume_sections(t),
     experience_level |-> experience_level_of(Len(t)),
     metadata         |-> [filename |-> f.filename, file_size |-> f.file_size,
                           text_length |-> Len(t)]]

\* the four extractor calls in order, the report and the success response;
\* an exception in the k-th call leaves the try block at once
Analyze(r) ==
    /\ pc[r] = "analyze"
    /\ \/ \E k \in 1..Len(Extractors) :
             /\ invoked' = [invoked EXCEPT ![r] = {Extractors[i] : i \in 1..k}]
             /\ Failed(r, Extractors[k])
       \/ \E sk \in extract_skills(resume_text[r]) :
             /\ invoked' = [invoked EXCEPT ![r] = Range(Extractors)]
             /\ response' = [response EXCEPT ![r] =
                    [status_code |-> 200, success |-> TRUE,
                     message |-> "Resume analyzed successfully",
                     data |-> analysis_result(file[r], resume_text[r], sk)]]
             /\ pc' = [pc EXCEPT ![r] = "finally"]
             /\ UNCHANGED fault
    /\ UNCHANGED <<PDFMINER_AVAILABLE, file, temp_path, disk, resume_text, created,
                   read_from, unlinked, fvars>>

\* finally, reached with temp_path set:
\* if temp_path and os.path.exists(temp_path): try os.unlink, except: pass
Cleanup(r) ==
    /\ pc[r] = "finally"
    /\ IF temp_path[r] \in DOMAIN disk
       THEN \/ /\ disk' = [n \in DOMAIN disk \ {temp_path[r]} |-> disk[n]]
               /\ unlinked' = [unlinked EXCEPT ![r] = {disk[temp_path[r]].creator}]
            \/ UNCHANGED <<disk, unlinked>>   \* os.unlink raised: swallowed
       ELSE UNCHANGED <<disk, unlinked>>
    /\ pc' = [pc EXCEPT ![r] = "done"]
    /\ UNCHANGED <<PDFMINER_AVAILABLE, file, temp_path, resume_text, invoked, response,
                   fault, created, read_from, fvars>>

Next ==
    \E r \in Requests :
        \/ Validate(r)
        \/ CreateTemp(r)
        \/ WriteTemp(r)
        \/ ExtractText(r)
        \/ Analyze(r)
        \/ Cleanup(r)

Spec == Init /\ [][Next]_vars

(***************************************************************************)
(* Properties of the handler (Spec)                                        *)
(***************************************************************************)
Returned(r) == pc[r] \in {"finally", "done"}

InFlight(r) == pc[r] \notin {"idle", "done"}

\* C1: once the handler of a request has returned, whichever way it ended, no
\* temporary file created by that request is left on disk.
C1_NoTempFileAfterReturn ==
    \A r \in Requests :
        pc[r] = "done" => \A n \in DOMAIN disk : disk[n].creator # r

InvalidUpload(f) ==
    \/ ~endswith(str_lower(f.filename), ".pdf")
    \/ f.file_size > 5 * 1024 * 1024
    \/ f.file_size = 0

\* C2: an upload whose name does not end in .pdf (any case), or whose size is over
\* 5 MiB or is 0, is refused with status 400, and for it no temporary file was
\* created, the text extraction was not called and no extractor was invoked.
C2_InvalidUploadRejected ==
    \A r \in Requests :
        (pc[r] # "idle" /\ InvalidUpload(file[r])) =>
            /\ pc[r] = "done"
            /\ response[r].status_code = 400
            /\ created[r] = None /\ temp_path[r] = None
            /\ \A n \in DOMAIN disk : disk[n].creator # r
            /\ read_from[r] = {} /\ resume_text[r] = None
            /\ fault[r] = "validation"
            /\ invoked[r] = {}

C2_Witness ==
    \E r \in Requests :
        /\ pc[r] = "done"
        /\ file[r].filename = "CV.PDF" /\ file[r].file_size = 5 * 1024 * 1024 + 1
        /\ response[r].status_code = 400
        /\ \E q \in Requests : pc[q] = "extract"

\* the text extraction could not produce text, or produced only whitespace
ExtractionFailed(r) ==
    \/ fault[r] \in {"unavailable", "extract_text"}
    \/ (resume_text[r] # None /\ strip(resume_text[r]) = "")

\* C3 as stated: whenever the text extraction is unavailable, raises, or returns
\* empty or whitespace-only text, the request ends in a 4xx failure and no
\* extractor is invoked.
C3_ExtractionFailureIs4xx ==
    \A r \in Requests :
        ExtractionFailed(r) =>
            /\ Returned(r)
            /\ response[r].status_code \in 400..499
            /\ invoked[r] = {}

\* C3 as amended: in those cases the request ends in a failure and no extractor is
\* invoked, never a success; the status is 400 when the returned text is empty or
\* whitespace-only, and 500 when the extraction is unavailable or raises.
C3_ExtractionFailureFails ==
    \A r \in Requests :
        ExtractionFailed(r) =>
            /\ Returned(r)
            /\ response[r].status_code =
                  (IF fault[r] \in {"unavailable", "extract_text"} THEN 500 ELSE 400)
            /\ invoked[r] = {}

C3_Witness ==
    \E r, q \in Requests :
        /\ pc[r] = "done" /\ fault[r] = "extract_text" /\ response[r].status_code = 500
        /\ pc[q] = "done" /\ resume_text[q] = " \n\t " /\ response[q].status_code = 400

\* C4: when one of the four extractors raises, the others still run and the
\* request still ends in a success response.
C4_ExtractorFailureIsolated ==
    \A r \in Requests :
        (pc[r] = "done" /\ fault[r] \in Range(Extractors)) =>
            /\ invoked[r] = Range(Extractors)
            /\ response[r].status_code = 200

\* C5: interleaved requests have distinct temporary paths; the text extraction of
\* a request reads only what that request wrote; a request's cleanup removes only
\* its own file, so a request about to extract still finds its own content.
C5_TempFilesNotShared ==
    /\ \A r, q \in Requests :
          (r # q /\ InFlight(r) /\ InFlight(q) /\ created[r] # None /\ created[q] # None)
              => created[r] # created[q]
    /\ \A r \in Requests : read_from[r] \subseteq {r}
    /\ \A r \in Requests : unlinked[r] \subseteq {r}
    /\ \A r \in Requests :
          pc[r] = "extract" =>
              /\ temp_path[r] \in DOMAIN disk
              /\ disk[temp_path[r]] = [creator |-> r, writers |-> {r}]

\* r read its own upload and removed its file while q's file waits to be read
C5_Witness ==
    \E r, q \in Requests :
        /\ r # q
        /\ pc[r] = "done" /\ read_from[r] = {r} /\ unlinked[r] = {r}
        /\ pc[q] = "extract" /\ temp_path[q] \in DOMAIN disk

(***************************************************************************)
(* Properties of analyze_resume_sections (SpecSections)                    *)
(***************************************************************************)
Includes(more, less) == \A k \in SectionNames : less[k] => more[k]

\* C6: the returned score is an integer in 0..100, and it is monotonic in section
\* presence: a presence mapping with every section of the analysed text's mapping
\* (and maybe more) scores at least as much, and one with fewer scores at most as
\* much.
C6_ScoreBoundedMonotonic ==
    step = "returned" =>
        /\ quality_analysis.score \in 0..100
        /\ \A other \in [SectionNames -> BOOLEAN] :
              /\ Includes(other, quality_analysis.sections_found)
                    => section_report(other).score >= quality_analysis.score
              /\ Includes(quality_analysis.sections_found, other)
                    => section_report(other).score <= quality_analysis.score

C6_Witness ==
    /\ step = "returned"
    /\ \A k \in SectionNames : quality_analysis.sections_found[k]
    /\ quality_analysis.score = 90

\* C7: the grade is decided by the returned score alone: Excellent exactly from
\* 80, Good exactly from 60 and below 80, Needs Improvement exactly below 60.
C7_GradeFromReturnedScore ==
    step = "returned" =>
        /\ quality_analysis.grade = "Excellent" <=> quality_analysis.score >= 80
        /\ quality_analysis.grade = "Good" <=>
              (quality_analysis.score >= 60 /\ quality_analysis.score < 80)
        /\ quality_analysis.grade = "Needs Improvement" <=> quality_analysis.score < 60

C7_Witness ==
    /\ step = "returned"
    /\ Cardinality({k \in SectionNames : quality_analysis.sections_found[k]}) = 4
    /\ quality_analysis.score = 60
    /\ quality_analysis.grade = "Good"

(***************************************************************************)
(* Property of the experience level (SpecLevel)                            *)
(***************************************************************************)
LevelRank(level) ==
    CASE level = "Fresher" -> 1
      [] level = "Intermediate" -> 2
      [] level = "Experienced" -> 3

\* C8: the level is Fresher below 1000 characters, Intermediate from 1000 and
\* below 3000, Experienced from 3000, and no shorter text gets a higher level.
C8_LevelThresholds ==
    step = "returned" =>
        /\ text_length < 1000 => experience_level = "Fresher"
        /\ (text_length >= 1000 /\ text_length < 3000) => experience_level = "Intermediate"
        /\ text_length >= 3000 => experience_level = "Experienced"
        /\ \A shorter \in 0..text_length :
              LevelRank(experience_level_of(shorter)) <= LevelRank(experience_level)

C8_Witness ==
    /\ step = "returned"
    /\ text_length = 1000
    /\ experience_level = "Intermediate"

(***************************************************************************)
(* Property of the skills part of the report (SpecSkills)                  *)
(***************************************************************************)
\* C9: every skill listed under one of the four categories is in
\* detected_skills, detected_skills holds no label twice, and total_skills is
\* the number of entries of detected_skills.
C9_SkillReportConsistent ==
    step = "returned" =>
        /\ DOMAIN skills_analysis.skill_categories = {"programming", "web", "data", "tools"}
        /\ \A c \in DOMAIN skills_analysis.skill_categories :
              Range(skills_analysis.skill_categories[c])
                  \subseteq Range(skills_analysis.detected_skills)
        /\ \A i, j \in 1..Len(skills_analysis.detected_skills) :
              skills_analysis.detected_skills[i] = skills_analysis.detected_skills[j] => i = j
        /\ skills_analysis.total_skills = Len(skills_analysis.detected_skills)

C9_Witness ==
    /\ step = "returned"
    /\ text = "Python, PYTHON developer"
    /\ skills_analysis.detected_skills = <<"Python">>
    /\ skills_analysis.skill_categories.programming = <<"Python">>
    /\ skills_analysis.total_skills = 1

(***************************************************************************)
(* Property of extract_education (SpecEducation)                           *)
(***************************************************************************)
QualifyingLines(lines) ==
    {i \in 1..Len(lines) :
        \E kw \in {"bachelor", "master", "phd", "degree", "university", "college"} :
            contains(str_lower(lines[i]), kw)}

\* the k-th smallest member of Q
Nth(Q, k) == CHOOSE i \in Q : Cardinality({j \in Q : j < i}) = k - 1

DegreeByPriority(entry, line_lower) ==
    IF contains_any(line_lower, {"bachelor", "b.s.", "b.a."})
    THEN "degree" \in DOMAIN entry /\ entry.degree = "Bachelor"
    ELSE IF contains_any(line_lower, {"master", "m.s.", "m.a."})
    THEN "degree" \in DOMAIN entry /\ entry.degree = "Master"
    ELSE IF contains_any(line_lower, {"phd", "doctorate"})
    THEN "degree" \in DOMAIN entry /\ entry.degree = "PhD"
    ELSE "degree" \notin DOMAIN entry

\* C10: the result has one entry per qualifying line, in the order of the lines,
\* non-qualifying lines skipped; the entry's degree is Bachelor if the line has a
\* Bachelor term, else Master if it has a Master term, else PhD if it has a PhD
\* term, else absent.
C10_EducationPerQualifyingLine ==
    step = "returned" =>
        LET lines == split_lines(text)
            Q == QualifyingLines(lines)
        IN /\ Len(education) = Cardinality(Q)
           /\ \A k \in 1..Len(education) :
                 /\ education[k].institution = strip(lines[Nth(Q, k)])
                 /\ DegreeByPriority(education[k], str_lower(lines[Nth(Q, k)]))

C10_Witness ==
    /\ step = "returned"
    /\ text = "Bachelor of Science, MIT, 2015\nRandom text\nPhD, Master's and BACHELOR"
    /\ education =
          << [institution |-> "Bachelor of Science, MIT, 2015", degree |-> "Bachelor",
              year |-> "2015"],
             [institution |-> "PhD, Master's and BACHELOR", degree |-> "Bachelor"] >>

====
